---- MODULE Spec2Model ----
(***************************************************************************)
(* Model of the etopo1 tools: sample.py (getQuad, interp1, main) and       *)
(* export.py (interp1, defaultColorMap, main).                             *)
(*                                                                         *)
(* Python floats are IEEE-754 doubles.  A double is written here as        *)
(*     [n, d, cn, cd]  =  n/d + (cn/cd) * 2^-ErrExp                        *)
(* an exact rational n/d (the result the operation would have over the     *)
(* reals) plus the accumulated rounding error, kept exactly as a rational  *)
(* multiple of 2^-ErrExp.  Every arithmetic operation rounds to the        *)
(* nearest double (ties to even), as the hardware does.                    *)
(***************************************************************************)
EXTENDS Integers, Sequences, FiniteSets, TLC

\* ------------------------------------------------------------------ bounds
\* Largest number of coordinate parts in a boundary.
MaxVerts == 3
\* Largest points-per-degree argument.
MaxPpd == 3
\* Largest absolute altitude of a heightmap pixel handed to export.main.
MaxAlt == 2
\* Number of pixels of a heightmap handed to export.main.
TifPixels == 3

\* ------------------------------------------------- IEEE-754 double format
\* Mantissa bits of a double, less one: a double in [2^L, 2^(L+1)) is a
\* multiple of 2^(L - MantBits).
MantBits == 52
\* The unit of the rounding-error term is 2^-ErrExp.
ErrExp == 60

\* ------------------------------------------------------ exact rationals
Abs(a) == IF a < 0 THEN -a ELSE a

Sgn(a) == IF a < 0 THEN -1 ELSE IF a > 0 THEN 1 ELSE 0

RECURSIVE GCD(_, _)
GCD(a, b) == IF b = 0 THEN a ELSE GCD(b, a % b)

\* The rational n/d in lowest terms with a positive denominator.
Q(n, d) ==
    LET s == IF d < 0 THEN -1 ELSE 1
        g == GCD(Abs(n), Abs(d))
    IN  [n |-> (s * n) \div g, d |-> (s * d) \div g]

QAdd(a, b) == Q(a.n * b.d + b.n * a.d, a.d * b.d)
QSub(a, b) == Q(a.n * b.d - b.n * a.d, a.d * b.d)
QMul(a, b) == Q(a.n * b.n, a.d * b.d)
QDiv(a, b) == Q(a.n * b.d, a.d * b.n)
QLt(a, b) == a.n * b.d < b.n * a.d
QLe(a, b) == a.n * b.d <= b.n * a.d
QFloor(a) == a.n \div a.d
QCeil(a) == -((-a.n) \div a.d)

RECURSIVE Pow2(_)
Pow2(k) == IF k = 0 THEN 1 ELSE 2 * Pow2(k - 1)

\* 2^k as a rational, k of either sign.
QPow2(k) == IF k >= 0 THEN Q(Pow2(k), 1) ELSE Q(1, Pow2(-k))

\* 2^k modulo m, by repeated squaring.
RECURSIVE Pow2Mod(_, _)
Pow2Mod(k, m) ==
    IF k = 0 THEN 1 % m
    ELSE IF k % 2 = 1 THEN (2 * Pow2Mod(k - 1, m)) % m
    ELSE CHOOSE r \in { (h * h) % m : h \in {Pow2Mod(k \div 2, m)} } : TRUE

\* floor(log2(n/d)) for n/d > 0.
RECURSIVE FloorLog2(_, _)
FloorLog2(n, d) ==
    IF n >= 2 * d THEN 1 + FloorLog2(n, 2 * d)
    ELSE IF n < d THEN FloorLog2(2 * n, d) - 1
    ELSE 0

\* ------------------------------------------------------------- doubles
F(q, c) == [n |-> q.n, d |-> q.d, cn |-> c.n, cd |-> c.d]

FBase(x) == Q(x.n, x.d)
FErr(x) == Q(x.cn, x.cd)

\* An integer, or a decimal text with an exactly representable value.
FInt(k) == F(Q(k, 1), Q(0, 1))

Zero == FInt(0)

\* Order of two doubles: the error terms are far below the gap between two
\* different bases, so they decide only between equal bases.
FLt(x, y) ==
    \/ QLt(FBase(x), FBase(y))
    \/ FBase(x) = FBase(y) /\ QLt(FErr(x), FErr(y))

FLe(x, y) == ~FLt(y, x)

\* The value of a one-element set.  Binding an operand as the element of
\* a one-element set computes it once, before it is used.
Val(S) == CHOOSE v \in S : TRUE

\* The integer nearest to the rational z, a tie going to the neighbour that
\* makes the mantissa even: odd is the parity of the mantissa's floor.
Nearest(z, odd) ==
    Val({ IF QLt(QSub(z, Q(lo, 1)), Q(1, 2)) THEN lo
          ELSE IF QLt(Q(1, 2), QSub(z, Q(lo, 1))) THEN lo + 1
          ELSE IF (odd + lo) % 2 = 0 THEN lo ELSE lo + 1 : lo \in {QFloor(z)} })

\* The binade of n/d + c * 2^-ErrExp for n/d > 0: just below a power of two
\* the spacing of doubles halves.
Binade(n, d, c) ==
    Val({ IF c.n < 0 /\ Q(n, d) = QPow2(L0) THEN L0 - 1 ELSE L0 :
          L0 \in {FloorLog2(n, d)} })

\* n/d * 2^(MantBits - L) = mantissa + rho with 0 <= rho < 1; r2 is
\* (n * 2^(MantBits - L)) mod 2d, which gives rho = (r2 mod d)/d and the
\* parity of the mantissa r2 div d.  U is the spacing of doubles in the
\* binade, in units of 2^-ErrExp.  The result is the error of the nearest
\* double: (k - rho) * U, for k the integer nearest to rho + c/U.
RoundErr(d, c, U, r2) ==
    Val({ QMul(QSub(Q(Nearest(QAdd(rho, QDiv(c, U)), r2 \div d), 1), rho), U) :
          rho \in {Q(r2 % d, d)} })

RNPos(n, d, c) ==
    Val({ Val({ RoundErr(d, c, U, r2) :
                r2 \in {((n % (2 * d)) * Pow2Mod(MantBits - L, 2 * d)) % (2 * d)},
                U \in {QPow2(L + ErrExp - MantBits)} }) :
          L \in {Binade(n, d, c)} })

\* Round-to-nearest-even of the real number q + c * 2^-ErrExp.  Rounding is
\* symmetric about zero; a difference of two doubles with the same base is
\* exact.
RNv(q, c) ==
    IF q.n = 0 THEN F(q, c)
    ELSE IF q.n > 0 THEN F(q, RNPos(q.n, q.d, c))
    ELSE Val({ F(q, Q(-e.n, e.d)) : e \in {RNPos(-q.n, q.d, Q(-c.n, c.d))} })

RN(q, c) == Val({ RNv(a, e) : a \in {q}, e \in {c} })

FAddv(x, y) == RN(QAdd(FBase(x), FBase(y)), QAdd(FErr(x), FErr(y)))
FSubv(x, y) == RN(QSub(FBase(x), FBase(y)), QSub(FErr(x), FErr(y)))

\* x * y = bx*by + (bx*cy + by*cx) * 2^-ErrExp; the product of the two error
\* terms is below 2^-100 and never decides a rounding.
FMulv(x, y) ==
    RN(QMul(FBase(x), FBase(y)),
       QAdd(QMul(FBase(x), FErr(y)), QMul(FBase(y), FErr(x))))

\* x / y = bx/by + (cx/by - bx*cy/by^2) * 2^-ErrExp, to first order.
FDivv(x, y) ==
    RN(QDiv(FBase(x), FBase(y)),
       QSub(QDiv(FErr(x), FBase(y)),
            QDiv(QMul(FBase(x), FErr(y)), QMul(FBase(y), FBase(y)))))

\* The four operations of double arithmetic.
FAdd(x, y) == Val({ FAddv(a, b) : a \in {x}, b \in {y} })
FSub(x, y) == Val({ FSubv(a, b) : a \in {x}, b \in {y} })
FMul(x, y) == Val({ FMulv(a, b) : a \in {x}, b \in {y} })
FDiv(x, y) == Val({ FDivv(a, b) : a \in {x}, b \in {y} })

\* round(x) in place of math.floor(x): the nearest integer, ties to even.
FRound(x) == Nearest(FBase(x), 0)

\* math.floor and math.ceil of a double.
FFloor(x) ==
    IF x.d = 1 THEN (IF x.cn < 0 THEN x.n - 1 ELSE x.n) ELSE QFloor(FBase(x))

FCeil(x) ==
    IF x.d = 1 THEN (IF x.cn > 0 THEN x.n + 1 ELSE x.n) ELSE QCeil(FBase(x))

\* ------------------------------------------------------ sample.interp1
\* Basic 1d linear interpolation; xx and yy are pairs of doubles.
interp1(xx, yy, x) ==
    LET pct == FDiv(FSub(x, xx[1]), FSub(xx[2], xx[1]))
    IN  FAdd(yy[1], FMul(pct, FSub(yy[2], yy[1])))

\* ---------------------------------------------------- inputs of sample
\* A coordinate text: a decimal number, or text float() cannot parse.
Num(v) == [num |-> TRUE, v |-> v]
NaT == [num |-> FALSE, v |-> 0]

\* The coordinate parts "lon,lat" a KML polygon may hold.
Vertices ==
    { <<Num(30), Num(10)>>, <<Num(40), Num(20)>>, <<Num(35), Num(15)>>,
      <<Num(-180), Num(90)>>, <<Num(180), Num(-90)>>,
      <<Num(-185), Num(15)>>, <<Num(35), Num(95)>>, <<Num(40), Num(100)>>,
      <<Num(190), Num(-95)>>, <<NaT, Num(10)>>, <<Num(30), NaT>> }

\* coords.text.split(): every list of at most MaxVerts parts.
Boundaries == UNION { [1..k -> Vertices] : k \in 0..MaxVerts }

\* Shapes (J, I) of the global relief raster.
Shapes == { <<18, 36>>, <<36, 72>>, <<180, 360>> }

\* ------------------------------------------------------ sample.getQuad
\* [float(v) for v in part.split(",")] succeeds on numeric texts only.
Parses(part) == \A t \in 1..Len(part) : part[t].num

\* Python's min() and max() over a non-empty list of doubles.
RECURSIVE SeqMin(_)
SeqMin(s) ==
    IF Len(s) = 1 THEN s[1]
    ELSE Val({ IF FLt(s[Len(s)], m) THEN s[Len(s)] ELSE m :
               m \in {SeqMin(SubSeq(s, 1, Len(s) - 1))} })

RECURSIVE SeqMax(_)
SeqMax(s) ==
    IF Len(s) = 1 THEN s[1]
    ELSE Val({ IF FLt(m, s[Len(s)]) THEN s[Len(s)] ELSE m :
               m \in {SeqMax(SubSeq(s, 1, Len(s) - 1))} })

\* getQuad reading each part as "lat,lon".
getQuadSwapped(ps) ==
    LET lats == [k \in 1..Len(ps) |-> FInt(ps[k][1].v)]
        lons == [k \in 1..Len(ps) |-> FInt(ps[k][2].v)]
    IN  IF \E k \in 1..Len(ps) : ~Parses(ps[k])
        THEN [ok |-> FALSE, err |-> "ValueError", quad |-> <<>>]
        ELSE IF Len(ps) = 0
        THEN [ok |-> FALSE, err |-> "ValueError", quad |-> <<>>]
        ELSE [ok |-> TRUE, err |-> "none",
              quad |-> <<SeqMin(lats), SeqMax(lats), SeqMin(lons), SeqMax(lons)>>]

\* The result of getQuad on the coordinate parts of the first polygon:
\* the quad [latMin, latMax, lonMin, lonMax], or the exception raised.
getQuad(ps) ==
    LET lats == [k \in 1..Len(ps) |-> FInt(ps[k][2].v)]
        lons == [k \in 1..Len(ps) |-> FInt(ps[k][1].v)]
    IN  IF \E k \in 1..Len(ps) : ~Parses(ps[k])
        THEN [ok |-> FALSE, err |-> "ValueError", quad |-> <<>>]
        ELSE IF Len(ps) = 0
        THEN [ok |-> FALSE, err |-> "ValueError", quad |-> <<>>]
        ELSE [ok |-> TRUE, err |-> "none",
              quad |-> <<SeqMin(lats), SeqMax(lats), SeqMin(lons), SeqMax(lons)>>]

\* ------------------------------------------------------- numpy.arange
\* numpy.arange(start, stop, step) on doubles: ceil((stop - start) / step)
\* elements; the first two are start and start + step, the others
\* start + i * delta with delta = (start + step) - start.
arangev(start, len, next, delta) ==
    [k \in 1..(IF len > 0 THEN len ELSE 0) |->
        IF k = 1 THEN start
        ELSE IF k = 2 THEN next
        ELSE FAdd(start, FMul(FInt(k - 1), delta))]

arange(start, stop, step) ==
    Val({ Val({ arangev(a, len, next, delta) : delta \in {FSub(next, a)} }) :
          a \in {start},
          len \in {FCeil(FDiv(FSub(stop, start), step))},
          next \in {FAdd(start, step)} })

\* ---------------------------------------------------------- numpy.take
\* range(a, b) as a list.
Range(a, b) == [k \in 1..(IF b > a THEN b - a ELSE 0) |-> a + k - 1]

\* numpy.take along an axis of length n (mode "raise"): an index in
\* [-n, n) is read, a negative one counting from the end.
InAxis(k, n) == -n <= k /\ k < n
Wrapped(k, n) == IF k < 0 THEN k + n ELSE k

\* ------------------------------------------- scipy RectBivariateSpline
\* Degree of the spline in each axis (kx = ky = 3 by default); the fit
\* needs more than Degree points on each axis.
Degree == 3
Fits(xs) == Len(xs) > Degree

\* -------------------------------------------------------- export.py
\* numpy's doubles also hold nan and the infinities, written here with a
\* zero denominator: 0/0 is nan, 1/0 and -1/0 are +inf and -inf.
NaN == [n |-> 0, d |-> 0, cn |-> 0, cd |-> 1]
Inf(s) == [n |-> s, d |-> 0, cn |-> 0, cd |-> 1]
IsNaN(x) == x.d = 0 /\ x.n = 0
IsInf(x) == x.d = 0 /\ x.n # 0
IsZero(x) == x.d # 0 /\ x.n = 0 /\ x.cn = 0

\* Arithmetic on numpy scalars: a division by zero raises nothing, it
\* warns and gives nan or an infinity.
NpSub(x, y) ==
    IF IsNaN(x) \/ IsNaN(y) THEN NaN
    ELSE IF IsInf(x) /\ IsInf(y) THEN (IF x.n = y.n THEN NaN ELSE x)
    ELSE IF IsInf(x) THEN x
    ELSE IF IsInf(y) THEN Inf(-y.n)
    ELSE FSub(x, y)

NpAdd(x, y) ==
    IF IsNaN(x) \/ IsNaN(y) THEN NaN
    ELSE IF IsInf(x) /\ IsInf(y) THEN (IF x.n = y.n THEN x ELSE NaN)
    ELSE IF IsInf(x) THEN x
    ELSE IF IsInf(y) THEN y
    ELSE FAdd(x, y)

NpMul(x, y) ==
    IF IsNaN(x) \/ IsNaN(y) THEN NaN
    ELSE IF IsInf(x) \/ IsInf(y)
    THEN (IF IsZero(x) \/ IsZero(y) THEN NaN ELSE Inf(Sgn(x.n) * Sgn(y.n)))
    ELSE FMul(x, y)

NpDiv(x, y) ==
    IF IsNaN(x) \/ IsNaN(y) THEN NaN
    ELSE IF IsInf(x) THEN (IF IsInf(y) THEN NaN ELSE Inf(x.n * (IF y.n < 0 THEN -1 ELSE 1)))
    ELSE IF IsInf(y) THEN Zero
    ELSE IF IsZero(y) THEN (IF IsZero(x) THEN NaN ELSE Inf(Sgn(x.n)))
    ELSE FDiv(x, y)

\* export.interp1, on numpy scalars.
npInterp1(xx, yy, x) ==
    LET pct == NpDiv(NpSub(x, xx[1]), NpSub(xx[2], xx[1]))
    IN  NpAdd(yy[1], NpMul(pct, NpSub(yy[2], yy[1])))

\* defaultColorMap(alt, range): black to blue below zero, green to white
\* from zero up.
defaultColorMap(a, range) ==
    IF FLt(a, Zero)
    THEN << npInterp1(<<range[1], Zero>>, <<Zero, Zero>>, a),
            npInterp1(<<range[1], Zero>>, <<Zero, Zero>>, a),
            npInterp1(<<range[1], Zero>>, <<Zero, FInt(1)>>, a) >>
    ELSE << npInterp1(<<Zero, range[2]>>, <<Zero, FInt(1)>>, a),
            npInterp1(<<Zero, range[2]>>, <<FInt(1), FInt(1)>>, a),
            npInterp1(<<Zero, range[2]>>, <<Zero, FInt(1)>>, a) >>

\* Heightmaps read by export.main, pixel by pixel in row-major order.
Heightmaps == [1..TifPixels -> { FInt(a) : a \in -MaxAlt..MaxAlt }]

\* ------------------------------------------------------------- state
VARIABLES
    pc,       \* the statement of sample.main about to run
    err,      \* the exception that ended the run, "none" otherwise
    ppd,      \* main's argument
    parts,    \* getQuad's coordinate parts, until it returns
    quad,     \* [latMin, latMax, lonMin, lonMax]
    shape,    \* topo.shape, <<J, I>>
    y0, yF, x0, xF,
    j0, jF, i0, iF,
    jj, ii,
    alt,      \* rows and columns of topo read by numpy.take
    rbs,      \* the span of the fitted surface
    yy, xx,
    res,      \* shape of the evaluated surface
    tifOut,   \* shape of the raster written to tifPath
    epc,      \* the statement of export.main about to run
    tif,      \* the heightmap export.main read
    lowest, highest,
    rgb,      \* the pixels coloured so far
    png       \* number of pixels written to pngPath

sampleVars == <<pc, err, ppd, parts, quad, shape, y0, yF, x0, xF, j0, jF, i0,
                iF, jj, ii, alt, rbs, yy, xx, res, tifOut>>
exportVars == <<epc, tif, lowest, highest, rgb, png>>
vars == <<sampleVars, exportVars>>

SampleIdle ==
    /\ err = "none"
    /\ parts = <<>>
    /\ quad = <<>>
    /\ shape = <<>>
    /\ y0 = Zero /\ yF = Zero /\ x0 = Zero /\ xF = Zero
    /\ j0 = 0 /\ jF = 0 /\ i0 = 0 /\ iF = 0
    /\ jj = <<>> /\ ii = <<>>
    /\ alt = [rows |-> <<>>, cols |-> <<>>]
    /\ rbs = <<>>
    /\ yy = <<>> /\ xx = <<>>
    /\ res = <<>>
    /\ tifOut = <<>>

ExportIdle ==
    /\ tif = <<>>
    /\ lowest = Zero /\ highest = Zero
    /\ rgb = <<>>
    /\ png = 0

\* python sample.py <kmlPath> [ppd]
Init ==
    /\ pc = "getQuad"
    /\ ppd \in 1..MaxPpd
    /\ SampleIdle
    /\ epc = "idle"
    /\ ExportIdle

\* An exception caught and logged, the run going on to the write.
RaiseSwallowed(e) == pc' = "imwrite" /\ err' = e

\* An exception leaves main: nothing after the raising statement runs.
Raise(e) == pc' = "failed" /\ err' = e

\* lines 29-45, the body of getQuad: the parts of the first polygon's
\* coordinates and their extrema
GetQuad ==
    /\ pc = "getQuad"
    /\ \E readable \in BOOLEAN, ps \in Boundaries :
         IF ~readable
         THEN Raise("FileNotFoundError") /\ UNCHANGED <<parts, quad>>
         ELSE IF ~getQuad(ps).ok
         THEN Raise(getQuad(ps).err) /\ parts' = ps /\ UNCHANGED quad
         ELSE pc' = "return" /\ parts' = ps /\ quad' = getQuad(ps).quad
              /\ UNCHANGED err
    /\ UNCHANGED <<ppd, shape, y0, yF, x0, xF, j0, jF, i0, iF, jj, ii, alt,
                   rbs, yy, xx, res, tifOut, exportVars>>

\* lines 46 and 63: getQuad returns the quad to main
Return ==
    /\ pc = "return"
    /\ parts' = <<>>
    /\ pc' = "imread"
    /\ UNCHANGED <<err, ppd, quad, shape, y0, yF, x0, xF, j0, jF, i0, iF, jj,
                   ii, alt, rbs, yy, xx, res, tifOut, exportVars>>

\* lines 64-65: topo = imageio.imread(GEOTIFF_PATH); J, I = topo.shape
ImRead ==
    /\ pc = "imread"
    /\ \/ Raise("FileNotFoundError") /\ UNCHANGED shape
       \/ \E s \in Shapes : shape' = s /\ pc' = "bounds" /\ UNCHANGED err
    /\ UNCHANGED <<ppd, parts, quad, y0, yF, x0, xF, j0, jF, i0, iF, jj, ii,
                   alt, rbs, yy, xx, res, tifOut, exportVars>>

\* lines 66-75: the fractional and the integer pixel bounds
Bounds ==
    /\ pc = "bounds"
    /\ LET J == shape[1]
           I == shape[2]
       IN  /\ y0' = interp1(<<FInt(90), FInt(-90)>>, <<FInt(0), FInt(J)>>, quad[2])
           /\ yF' = interp1(<<FInt(90), FInt(-90)>>, <<FInt(0), FInt(J)>>, quad[1])
           /\ x0' = interp1(<<FInt(-180), FInt(180)>>, <<FInt(0), FInt(I)>>, quad[3])
           /\ xF' = interp1(<<FInt(-180), FInt(180)>>, <<FInt(0), FInt(I)>>, quad[4])
    /\ j0' = FFloor(y0')
    /\ jF' = FCeil(yF')
    /\ i0' = FFloor(x0')
    /\ iF' = FCeil(xF')
    /\ jj' = Range(j0', jF')
    /\ ii' = Range(i0', iF')
    /\ pc' = "take"
    /\ UNCHANGED <<err, ppd, parts, quad, shape, alt, rbs, yy, xx, res, tifOut,
                   exportVars>>

\* line 76: alt = numpy.take(numpy.take(topo, jj, 0), ii, 1)
Take ==
    /\ pc = "take"
    /\ LET J == shape[1]
           I == shape[2]
       IN  IF \E k \in 1..Len(jj) : ~InAxis(jj[k], J)
           THEN Raise("IndexError") /\ UNCHANGED alt
           ELSE IF \E k \in 1..Len(ii) : ~InAxis(ii[k], I)
           THEN Raise("IndexError") /\ UNCHANGED alt
           ELSE /\ alt' = [rows |-> [k \in 1..Len(jj) |-> Wrapped(jj[k], J)],
                           cols |-> [k \in 1..Len(ii) |-> Wrapped(ii[k], I)]]
                /\ pc' = "fit"
                /\ UNCHANGED err
    /\ UNCHANGED <<ppd, parts, quad, shape, y0, yF, x0, xF, j0, jF, i0, iF,
                   jj, ii, rbs, yy, xx, res, tifOut, exportVars>>

\* line 77: rbs = interpolate.RectBivariateSpline(jj, ii, alt)
Fit ==
    /\ pc = "fit"
    /\ IF Fits(jj) /\ Fits(ii)
       THEN /\ rbs' = <<jj[1], jj[Len(jj)], ii[1], ii[Len(ii)]>>
            /\ pc' = "arange"
            /\ UNCHANGED err
       ELSE Raise("dfitpack.error") /\ UNCHANGED rbs
    /\ UNCHANGED <<ppd, parts, quad, shape, y0, yF, x0, xF, j0, jF, i0, iF,
                   jj, ii, alt, yy, xx, res, tifOut, exportVars>>

\* lines 78-79: yy and xx
Arange ==
    /\ pc = "arange"
    /\ yy' = arange(y0, yF, FDiv(FInt(1), FInt(ppd)))
    /\ xx' = arange(x0, xF, FDiv(FInt(1), FInt(ppd)))
    /\ pc' = "eval"
    /\ UNCHANGED <<err, ppd, parts, quad, shape, y0, yF, x0, xF, j0, jF, i0,
                   iF, jj, ii, alt, rbs, res, tifOut, exportVars>>

\* line 80: alt = rbs(yy, xx)
Eval ==
    /\ pc = "eval"
    /\ res' = <<Len(yy), Len(xx)>>
    /\ pc' = "imwrite"
    /\ UNCHANGED <<err, ppd, parts, quad, shape, y0, yF, x0, xF, j0, jF, i0,
                   iF, jj, ii, alt, rbs, yy, xx, tifOut, exportVars>>

\* lines 81-83: imageio.imwrite(tifPath, alt), then the report
ImWrite ==
    /\ pc = "imwrite"
    /\ tifOut' = res
    /\ pc' = "done"
    /\ UNCHANGED <<err, ppd, parts, quad, shape, y0, yF, x0, xF, j0, jF, i0,
                   iF, jj, ii, alt, rbs, yy, xx, res, exportVars>>

Next ==
    \/ GetQuad
    \/ Return
    \/ ImRead
    \/ Bounds
    \/ Take
    \/ Fit
    \/ Arange
    \/ Eval
    \/ ImWrite

Spec == Init /\ [][Next]_vars

\* ------------------------------------------------------- export.main
\* python export.py <tifPath>
InitExport ==
    /\ epc = "imread"
    /\ ExportIdle
    /\ pc = "idle"
    /\ ppd = 1
    /\ SampleIdle

\* lines 55-59: the heightmap and its lowest and highest altitude
ExportRead ==
    /\ epc = "imread"
    /\ \E t \in Heightmaps :
         /\ tif' = t
         /\ lowest' = SeqMin(t)
         /\ highest' = SeqMax(t)
    /\ epc' = "loop"
    /\ UNCHANGED <<rgb, png, sampleVars>>

\* lines 60-62: rgb[j,i,:] = colorMap(tif[j,i], [lowest, highest])
ColorPixel ==
    /\ epc = "loop"
    /\ Len(rgb) < Len(tif)
    /\ rgb' = Append(rgb, defaultColorMap(tif[Len(rgb) + 1], <<lowest, highest>>))
    /\ UNCHANGED <<epc, tif, lowest, highest, png, sampleVars>>

\* lines 63-66: the image is written once every pixel is coloured
ExportWrite ==
    /\ epc = "loop"
    /\ Len(rgb) = Len(tif)
    /\ png' = Len(rgb)
    /\ epc' = "done"
    /\ UNCHANGED <<tif, lowest, highest, rgb, sampleVars>>

NextExport ==
    \/ ExportRead
    \/ ColorPixel
    \/ ExportWrite

SpecExport == InitExport /\ [][NextExport]_vars

\* ------------------------------------------------------------ properties
\* Lines 66-75 have run.
BoundsDone == shape # <<>> /\ pc # "bounds"

\* Lines 78-79 have run.
ArangeDone == pc \in {"eval", "imwrite", "done"}

\* The quad lies inside the raster's extent, [-90, 90] x [-180, 180].
InExtent ==
    /\ quad # <<>>
    /\ FLe(FInt(-90), quad[1]) /\ FLe(quad[2], FInt(90))
    /\ FLe(FInt(-180), quad[3]) /\ FLe(quad[4], FInt(180))

\* C1: for a quad inside the extent, every output sample coordinate lies
\* in the span of the extracted sub-grid: jj[first] <= y <= jj[last] for
\* every y of yy and ii[first] <= x <= ii[last] for every x of xx.
C1_NoExtrapolation ==
    (ArangeDone /\ InExtent) =>
        /\ \A k \in 1..Len(yy) :
             FLe(FInt(jj[1]), yy[k]) /\ FLe(yy[k], FInt(jj[Len(jj)]))
        /\ \A k \in 1..Len(xx) :
             FLe(FInt(ii[1]), xx[k]) /\ FLe(xx[k], FInt(ii[Len(ii)]))

\* C2: the integer bounds enclose the fractional ones,
\* j0 <= y0 <= yF <= jF and i0 <= x0 <= xF <= iF, and are the nearest such
\* integers (j0 the floor of y0, jF the ceiling of yF, likewise i0 and iF).
C2_Enclosure ==
    BoundsDone =>
        /\ FLe(FInt(j0), y0) /\ FLe(y0, yF) /\ FLe(yF, FInt(jF))
        /\ FLe(FInt(i0), x0) /\ FLe(x0, xF) /\ FLe(xF, FInt(iF))
        /\ FLt(y0, FInt(j0 + 1)) /\ FLt(FInt(jF - 1), yF)
        /\ FLt(x0, FInt(i0 + 1)) /\ FLt(FInt(iF - 1), xF)

\* C2 witness: bounds computed for a quad whose mapped corners are not
\* whole pixels, so the integer bounds lie strictly outside them.
C2_Witness ==
    /\ BoundsDone
    /\ FLt(FInt(j0), y0) /\ FLt(yF, FInt(jF))
    /\ FLt(FInt(i0), x0) /\ FLt(xF, FInt(iF))

Lat(part) == FInt(part[2].v)
Lon(part) == FInt(part[1].v)

\* The parts in the order given by the permutation p of their positions.
Reordered(ps, p) == [k \in 1..Len(ps) |-> ps[p[k]]]

\* C3: when getQuad returns, latMin and latMax are the least and the
\* greatest latitude (second component) of the parts, lonMin and lonMax
\* the least and the greatest longitude (first component); so
\* latMin <= latMax and lonMin <= lonMax, and the parts in any other order
\* give the same quad.
C3_QuadIsExtrema ==
    (pc = "return") =>
        /\ \E k \in 1..Len(parts) : quad[1] = Lat(parts[k])
        /\ \E k \in 1..Len(parts) : quad[2] = Lat(parts[k])
        /\ \E k \in 1..Len(parts) : quad[3] = Lon(parts[k])
        /\ \E k \in 1..Len(parts) : quad[4] = Lon(parts[k])
        /\ \A k \in 1..Len(parts) :
             /\ FLe(quad[1], Lat(parts[k])) /\ FLe(Lat(parts[k]), quad[2])
             /\ FLe(quad[3], Lon(parts[k])) /\ FLe(Lon(parts[k]), quad[4])
        /\ FLe(quad[1], quad[2]) /\ FLe(quad[3], quad[4])
        /\ \A p \in Permutations(1..Len(parts)) :
             getQuad(Reordered(parts, p)).quad = quad

\* C3 witness: getQuad returned for three parts of which the first holds
\* no extremum of latitude and the extrema are distinct.
C3_Witness ==
    /\ pc = "return"
    /\ Len(parts) = 3
    /\ FLt(quad[1], Lat(parts[1])) /\ FLt(Lat(parts[1]), quad[2])
    /\ FLt(quad[3], quad[4])

\* ceil((hi - lo) * density), over the reals.
Points(lo, hi, density) ==
    QCeil(QMul(QSub(FBase(hi), FBase(lo)), Q(density, 1)))

\* C4: for a quad inside the extent the output has
\* ceil((latMax - latMin) * ppd) rows and ceil((lonMax - lonMin) * ppd)
\* columns whatever the raster's shape; a (180, 360) raster with quad
\* (10, 20, 30, 40) and ppd 1 gives rows [70, 80], columns [210, 220] and a
\* 10 x 10 output.
C4_PointsPerDegree ==
    (pc = "done" /\ InExtent) =>
        /\ tifOut = <<Points(quad[1], quad[2], ppd), Points(quad[3], quad[4], ppd)>>
        /\ (/\ shape = <<180, 360>> /\ ppd = 1
            /\ quad = <<FInt(10), FInt(20), FInt(30), FInt(40)>>)
           => /\ <<j0, jF, i0, iF>> = <<70, 80, 210, 220>>
              /\ tifOut = <<10, 10>>

\* The integer bounds fall outside the raster.
OutOfRange ==
    \/ j0 < 0 \/ jF > shape[1]
    \/ i0 < 0 \/ iF > shape[2]

\* C5: when the pixel bounds fall outside [0, J) or [0, I) the run fails
\* with OutOfBoundsError before any element of the raster is read, and
\* writes no output.
C5_OutOfRangeRejected ==
    (BoundsDone /\ OutOfRange) =>
        /\ pc = "take" \/ (pc = "failed" /\ err = "OutOfBoundsError")
        /\ alt = [rows |-> <<>>, cols |-> <<>>]
        /\ tifOut = <<>>

\* C6: getQuad returns a quad only for at least 3 parts, all numeric; on
\* any other boundary it fails with MalformedBoundaryError.
C6_DegenerateRejected ==
    /\ (pc = "return") =>
          Len(parts) >= 3 /\ \A k \in 1..Len(parts) : Parses(parts[k])
    /\ (pc = "failed" /\ parts # <<>>) => err = "MalformedBoundaryError"

\* An index sequence is too short for a cubic fit.
TooFew == Len(jj) < 4 \/ Len(ii) < 4

\* C7: the fit is attempted only when jj and ii both have at least 4
\* elements; with fewer the run fails with InsufficientSamplesError.
C7_MinimumSamples ==
    /\ (pc = "fit") => ~TooFew
    /\ (BoundsDone /\ TooFew /\ pc = "failed") => err = "InsufficientSamplesError"

\* C8: for a quad inside the extent, 0 <= j0 < jF <= J and
\* 0 <= i0 < iF <= I: jj and ii are non-empty and hold valid indices only.
C8_PixelBounds ==
    (BoundsDone /\ InExtent) =>
        /\ 0 <= j0 /\ j0 < jF /\ jF <= shape[1]
        /\ 0 <= i0 /\ i0 < iF /\ iF <= shape[2]
        /\ jj # <<>> /\ ii # <<>>
        /\ \A k \in 1..Len(jj) : 0 <= jj[k] /\ jj[k] < shape[1]
        /\ \A k \in 1..Len(ii) : 0 <= ii[k] /\ ii[k] < shape[2]

\* C9: the output is written only by a run that completed boundary
\* parsing, raster read, extraction, fit and evaluation, in that order; a
\* run that fails stops there: no later stage has run and nothing is
\* written.
C9_NoOutputOnFailure ==
    /\ (tifOut # <<>>) => (pc = "done" /\ err = "none" /\ tifOut = res)
    /\ (res # <<>>) => (rbs # <<>> /\ pc \in {"imwrite", "done"})
    /\ (yy # <<>> \/ xx # <<>>) => rbs # <<>>
    /\ (rbs # <<>>) => alt.rows # <<>>
    /\ (alt.rows # <<>>) => shape # <<>>
    /\ (shape # <<>>) => quad # <<>>
    /\ (err # "none") <=> (pc = "failed")
    /\ (pc = "failed") => (tifOut = <<>> /\ res = <<>> /\ ~ENABLED Next)

\* C9 witness: the fit failed after a successful extraction; nothing was
\* evaluated or written.
C9_Witness ==
    /\ pc = "failed"
    /\ err = "dfitpack.error"
    /\ alt.rows # <<>>
    /\ tifOut = <<>>

\* A colour component is a number in [0, 1].
InUnit(x) == ~IsNaN(x) /\ ~IsInf(x) /\ FLe(Zero, x) /\ FLe(x, FInt(1))

\* C10: every component of every coloured pixel is defined and in [0, 1];
\* a negative lowest maps to black, a negative altitude has no red or green,
\* zero maps to green (below a positive highest) and highest to white.
C10_ColorInUnitCube ==
    \A k \in 1..Len(rgb) :
        /\ \A c \in 1..3 : InUnit(rgb[k][c])
        /\ FLt(tif[k], Zero) => (rgb[k][1] = Zero /\ rgb[k][2] = Zero)
        /\ (tif[k] = lowest /\ FLt(tif[k], Zero)) => rgb[k] = <<Zero, Zero, Zero>>
        /\ (tif[k] = Zero /\ FLt(Zero, highest)) => rgb[k] = <<Zero, FInt(1), Zero>>
        /\ (tif[k] = highest /\ FLe(Zero, tif[k])) => rgb[k] = <<FInt(1), FInt(1), FInt(1)>>
====
